---- MODULE Spec2Model ----
(***************************************************************************)
(* Bitbucket MCP server: a state-machine model of the tool handlers, the   *)
(* authenticated GET wrapper and the registration wrapper.                 *)
(*                                                                         *)
(* Two entry points exist in the repository.  The one built around         *)
(* registerApiTool / getOrThrow / fatal is modelled by Spec and ConcSpec;  *)
(* the one that registers its handlers directly with server.registerTool   *)
(* and calls bitbucketApiRequest is modelled by LegacySpec.                *)
(***************************************************************************)
EXTENDS Integers, Sequences, FiniteSets, TLC

\* Number of tool invocations that may be in flight at once (ConcSpec).
NumInv == 2
\* Longest "values" list an inbox query returns (Spec).
MaxLen == 2

VARIABLES
    env,          \* process.env: BB_BASE_URL and BB_TOKEN, each unset or a string
    phase,        \* "boot" | "exited" | "serving"
    pc,           \* per invocation: "idle", "await" (suspended at a GET) or "done"
    loc,          \* per invocation: the handler's arguments and local variables
    outstanding,  \* per invocation: the GETs issued and not yet answered
    issued,       \* per invocation: every GET issued, in order
    received,     \* per invocation: every wrapper result received, in order
    result,       \* per invocation: how the registered callback completed
    config        \* the module constants BB_BASE_URL and BB_TOKEN

vars == <<env, phase, pc, loc, outstanding, issued, received, result, config>>

Invocations == 1 .. NumInv

(***************************************************************************)
(* JavaScript values.  undefined is None, a present value x is Some(x).    *)
(* A string is a sequence of segments, so that a template literal keeps    *)
(* the interpolated value as one segment.                                  *)
(***************************************************************************)
None == <<>>
Some(x) == <<x>>
IsSome(o) == Len(o) = 1
Get(o) == o[1]

JsUndefined == [t |-> "undefined", v |-> <<>>]
JsString(segments) == [t |-> "string", v |-> segments]
JsArray(items) == [t |-> "array", v |-> items]
JsObject(fields) == [t |-> "object", v |-> <<fields>>]

\* typeof data === 'string' ? data : JSON.stringify(data, null, 2)
\* JSON.stringify(undefined) is undefined; any other value gives a string,
\* kept here as the value it renders.
JSONstringify(data) ==
    IF data.t = "undefined" THEN JsUndefined
    ELSE [t |-> "string", v |-> <<>>, json |-> <<data>>]

IsJsString(x) == x.t = "string"

\* s contains m: m is empty or one of the segments of s
Contains(s, m) == m = "" \/ \E k \in 1 .. Len(s.v) : s.v[k] = m

(***************************************************************************)
(* Upstream payloads.                                                      *)
(***************************************************************************)
PrIds == {41, 42}
Titles == {"t1", "t2"}

\* The nested objects of an upstream pull request that the projection reads.
NestedObjects ==
    {"reviewers", "author", "author.user", "destination",
     "destination.repository", "fromRef", "fromRef.repository",
     "fromRef.repository.project"}

\* Shapes of partial pull requests: the nested objects that are absent.
PartialShapes ==
    {{"reviewers", "author", "destination"},
     {"author.user", "destination.repository"},
     {"fromRef"},
     {"fromRef.repository"},
     {"fromRef.repository.project"}}

PullRequest(id, title, absent) == [id |-> id, title |-> title, absent |-> absent]

\* Two copies of pull request 41 that differ in their title, another pull
\* request, and the partial shapes of a fourth.
FullItems ==
    {PullRequest(41, "t1", {}), PullRequest(41, "t2", {}), PullRequest(42, "t1", {})}
PartialItems == {PullRequest(42, "t2", s) : s \in PartialShapes}
PRItems == FullItems \cup PartialItems

RECURSIVE SeqsUpTo(_, _)
SeqsUpTo(S, n) ==
    IF n = 0 THEN {<<>>}
    ELSE LET shorter == SeqsUpTo(S, n - 1)
         IN  shorter \cup {Append(s, x) : s \in {q \in shorter : Len(q) = n - 1}, x \in S}

\* A JSON body: null, or an object whose "values" is absent or a list.
JsonNull == [json |-> "null"]
Values(list) == [json |-> "object", values |-> Some(list)]
NoValues == [json |-> "object", values |-> None]

User(slug) == [name |-> "jdoe", slug |-> slug, displayName |-> "J. Doe"]

Timestamps == {0, 86400000}
PrDetail(created, updated) ==
    [json |-> "object", id |-> 41, title |-> "t1", description |-> "d",
     createdDate |-> created, updatedDate |-> updated]

DiffText == "--- a/f\n+++ b/f\n"

\* What axios.get does: resolves with a body, or rejects with an error that
\* may carry the upstream response.
AxiosOk(data) == [ok |-> TRUE, data |-> data]
AxiosFail(response, message) == [ok |-> FALSE, response |-> response, message |-> message]

Failures ==
    {AxiosFail(Some([status |-> 401, data |-> "Unauthorized"]), "Request failed with status code 401"),
     AxiosFail(Some([status |-> 500, data |-> ""]), "Request failed with status code 500"),
     AxiosFail(None, "timeout of 0ms exceeded")}

\* z.enum(['author','reviewer','all']).optional(): the role a caller passes
RoleInputs == {None, Some("author"), Some("reviewer"), Some("all")}

UsersBodies ==
    {JsonNull, NoValues, Values(<<>>), Values(<<User(None)>>), Values(<<User(Some("jdoe"))>>)}

PrBodies ==
    {JsonNull, PrDetail(None, None)} \cup {PrDetail(Some(c), Some(86400000)) : c \in Timestamps}

\* The domain of one run: the role inputs, and per endpoint the bodies and
\* the failures the upstream host may answer with.
RichDomain ==
    [inputs |-> RoleInputs,
     whoami |-> {"jdoe"},
     users |-> UsersBodies,
     inbox |-> {JsonNull, NoValues} \cup {Values(l) : l \in SeqsUpTo(PRItems, MaxLen)},
     pr |-> PrBodies,
     diff |-> {"", DiffText},
     failures |-> Failures]

SmallDomain ==
    [inputs |-> {None, Some("author"), Some("reviewer")},
     whoami |-> {"jdoe"},
     users |-> {Values(<<>>), Values(<<User(Some("jdoe"))>>)},
     inbox |-> {NoValues, Values(<<PullRequest(41, "t1", {})>>), Values(<<PullRequest(41, "t2", {})>>)},
     pr |-> {JsonNull, PrDetail(Some(0), Some(86400000))},
     diff |-> {DiffText},
     failures |-> {AxiosFail(Some([status |-> 401, data |-> "Unauthorized"]),
                             "Request failed with status code 401")}]

Bodies(kind, dom) ==
    CASE kind = "whoami" -> dom.whoami
      [] kind = "users" -> dom.users
      [] kind = "inbox" -> dom.inbox
      [] kind = "pr" -> dom.pr
      [] kind = "diff" -> dom.diff

AxiosOutcomes(kind, dom) == {AxiosOk(b) : b \in Bodies(kind, dom)} \cup dom.failures

(***************************************************************************)
(* Process start: the module constants and the configuration gate.         *)
(***************************************************************************)
EnvValues == {None, Some(""), Some("x")}
Environments == [BB_BASE_URL : EnvValues, BB_TOKEN : EnvValues]

\* JavaScript truthiness of process.env.X: set and not the empty string
Truthy(o) == IsSome(o) /\ Get(o) /= ""

NoConfig == [BB_BASE_URL |-> None, BB_TOKEN |-> None]

\* const BB_BASE_URL = process.env.BB_BASE_URL || fatal('Missing BB_BASE_URL');
\* const BB_TOKEN = process.env.BB_TOKEN || fatal('Missing BB_TOKEN');
\* fatal logs and calls process.exit(1): nothing after it runs.
fatal(e) == ~Truthy(e.BB_BASE_URL) \/ ~Truthy(e.BB_TOKEN)

(***************************************************************************)
(* bitbucketGet, getOrThrow, format.                                       *)
(***************************************************************************)
\* The GET that bitbucketGet hands to axios.get.
Request(kind, param, cfg, accept, responseType) ==
    [kind |-> kind, param |-> param, base |-> cfg.BB_BASE_URL,
     authorization |-> <<"Bearer ", cfg.BB_TOKEN>>,
     accept |-> accept, responseType |-> responseType]

\* config.responseType || 'json', no extra headers
JsonRequest(kind, param, cfg) == Request(kind, param, cfg, None, "json")

\* error.response?.data || error.message
ErrorMessage(o) ==
    IF IsSome(o.response) /\ Get(o.response).data /= ""
    THEN Get(o.response).data ELSE o.message

\* bitbucketGet's result for what axios.get did: {data} or {error:{status,message}}
bitbucketGet(o) ==
    IF o.ok THEN [tag |-> "data", data |-> o.data]
    ELSE [tag |-> "error",
          status |-> IF IsSome(o.response) THEN Some(Get(o.response).status) ELSE None,
          message |-> ErrorMessage(o)]

\* getOrThrow: the message it throws with, or nothing when it returns result.data
getOrThrowIgnoresError(res) == None

getOrThrow(res) == IF res.tag = "error" THEN Some(res.message) ELSE None

\* What getOrThrow returns when it does not throw: result.data (undefined for
\* the error variant).
DataOf(res) == IF res.tag = "data" THEN Some(res.data) ELSE None

\* format(data): the envelope with its single text block
format(data) ==
    [content |-> << [type |-> "text",
                     text |-> IF IsJsString(data) THEN data ELSE JSONstringify(data)] >>]

(***************************************************************************)
(* A handler runs from one await to the next.  A continuation says what    *)
(* it does when it stops: await the GETs it issued, return, or throw.      *)
(***************************************************************************)
NoLocals ==
    [tool |-> "", input |-> None, role |-> "", username |-> None,
     roles |-> <<>>, r |-> 0, allPrs |-> <<>>]

Await(reqs, l) == [next |-> "await", reqs |-> reqs, loc |-> l, value |-> JsUndefined, message |-> ""]
Return(v, l) == [next |-> "return", reqs |-> <<>>, loc |-> l, value |-> v, message |-> ""]
Throw(m, l) == [next |-> "throw", reqs |-> <<>>, loc |-> l, value |-> JsUndefined, message |-> m]

TypeErrorReading(prop) ==
    "Cannot read properties of undefined (reading '" \o prop \o "')"

TypeErrorReadingNull(prop) ==
    "Cannot read properties of null (reading '" \o prop \o "')"

\* Reading property prop of a response body that is undefined or JSON null
ReadOf(body, prop) ==
    IF IsSome(body) THEN TypeErrorReadingNull(prop) ELSE TypeErrorReading(prop)

\* z.enum(['author','reviewer','all']).optional().default('all')
ZodDefault(input) == IF IsSome(input) THEN Get(input) ELSE "all"

toUpperCase(role) ==
    CASE role = "author" -> "AUTHOR"
      [] role = "reviewer" -> "REVIEWER"
      [] role = "all" -> "ALL"

\* const roles = role === 'all' ? ['AUTHOR', 'REVIEWER'] : [role.toUpperCase()];
RolesAlwaysBoth(role) == <<"AUTHOR", "REVIEWER">>

RolesAllAppended(role) ==
    IF role = "all" THEN <<"AUTHOR", "REVIEWER", toUpperCase(role)>> ELSE <<toUpperCase(role)>>

Roles(role) == IF role = "all" THEN <<"AUTHOR", "REVIEWER">> ELSE <<toUpperCase(role)>>

(***************************************************************************)
(* Tool: bitbucketlistprs.                                                 *)
(***************************************************************************)
Has(pr, o) == o \notin pr.absent

\* The TypeError that reading pr.fromRef.repository.project.key and
\* pr.fromRef.repository.slug throws, if any.
ProjectionThrows(pr) ==
    IF ~Has(pr, "fromRef") THEN Some(TypeErrorReading("repository"))
    ELSE IF ~Has(pr, "fromRef.repository") THEN Some(TypeErrorReading("project"))
    ELSE IF ~Has(pr, "fromRef.repository.project") THEN Some(TypeErrorReading("key"))
    ELSE None

\* The object literal of the .map callback, for a pr whose fromRef chain is whole.
Projection(pr) ==
    [id |-> pr.id,
     title |-> pr.title,
     author |-> IF Has(pr, "author") /\ Has(pr, "author.user") THEN Some("Alice") ELSE None,
     reviewers |-> IF Has(pr, "reviewers") THEN Some(<<Some("Bob")>>) ELSE None,
     state |-> "OPEN",
     repository |-> IF Has(pr, "destination") /\ Has(pr, "destination.repository")
                    THEN Some("PRJ/repo") ELSE None,
     projectKey |-> "PRJ",
     repositorySlug |-> "repo"]

\* arr.findIndex((p) => p.id === id)
findIndex(arr, id) == CHOOSE k \in 1 .. Len(arr) : arr[k].id = id /\ \A j \in 1 .. k - 1 : arr[j].id /= id

findLastIndex(arr, id) == CHOOSE k \in 1 .. Len(arr) : arr[k].id = id /\ \A j \in k + 1 .. Len(arr) : arr[j].id /= id

\* The elements of arr at the indices in keep, in arr's order
filter(arr, keep) ==
    [j \in 1 .. Cardinality(keep) |->
        arr[CHOOSE k \in keep : Cardinality({x \in keep : x <= k}) = j]]

\* allPrs.filter((pr, i, arr) => arr.findIndex((p) => p.id === pr.id) === i)
UniquePrsKeepLast(allPrs) ==
    filter(allPrs, {i \in 1 .. Len(allPrs) : findLastIndex(allPrs, allPrs[i].id) = i})

UniquePrs(allPrs) ==
    filter(allPrs, {i \in 1 .. Len(allPrs) : findIndex(allPrs, allPrs[i].id) = i})

\* .map(...) over the unique items: the first projection that throws ends it.
MapProjection(unique, l) ==
    LET bad == {k \in 1 .. Len(unique) : IsSome(ProjectionThrows(unique[k]))}
    IN  IF bad /= {}
        THEN Throw(Get(ProjectionThrows(unique[CHOOSE k \in bad : \A j \in bad : k <= j])), l)
        ELSE Return(JsArray([k \in 1 .. Len(unique) |-> Projection(unique[k])]), l)

\* One iteration of "for (const r of roles)": the single GET it awaits.
LoopRequestsAllAtOnce(roles, r, cfg) ==
    [k \in 1 .. Len(roles) - r + 1 |-> JsonRequest("inbox", <<roles[r + k - 1]>>, cfg)]

LoopRequests(roles, r, cfg) == <<JsonRequest("inbox", <<roles[r]>>, cfg)>>

\* The handler up to its first await.
listPrsStart(input, cfg) ==
    Await(<<JsonRequest("whoami", <<>>, cfg)>>,
          [NoLocals EXCEPT !.tool = "bitbucketlistprs", !.input = input,
                           !.role = ZodDefault(input)])

\* From the identity lookup's answer to the next await.
listPrsAfterWhoami(l, res, cfg) ==
    IF IsSome(getOrThrow(res)) THEN Throw(Get(getOrThrow(res)), l)
    ELSE LET username == DataOf(res)
         IN  Await(<<JsonRequest("users",
                                 <<IF IsSome(username) THEN Get(username) ELSE "undefined">>,
                                 cfg)>>,
                   [l EXCEPT !.username = username])

\* From the user search's answer to the first inbox query.
listPrsAfterUsers(l, res, cfg) ==
    IF IsSome(getOrThrow(res)) THEN Throw(Get(getOrThrow(res)), l)
    ELSE LET userResp == DataOf(res)
         IN  IF ~IsSome(userResp) \/ Get(userResp) = JsonNull
             THEN Throw(ReadOf(userResp, "values"), l)
             ELSE IF ~IsSome(Get(userResp).values)
             THEN Throw(TypeErrorReading("0"), l)
             ELSE LET values == Get(Get(userResp).values)
                      slug == IF Len(values) > 0 THEN values[1].slug ELSE None
                  IN  IF ~Truthy(slug)
                      THEN Throw("Failed to resolve current user slug", l)
                      ELSE LET roles == Roles(l.role)
                           IN  Await(LoopRequests(roles, 1, cfg),
                                     [l EXCEPT !.roles = roles, !.r = 1, !.allPrs = <<>>])

\* From an inbox query's answer to the next one, or to the handler's end.
listPrsAfterInbox(l, res, cfg) ==
    IF IsSome(getOrThrow(res)) THEN Throw(Get(getOrThrow(res)), l)
    ELSE LET prs == DataOf(res)
         IN  IF ~IsSome(prs) \/ Get(prs) = JsonNull
             THEN Throw(ReadOf(prs, "values"), l)
             ELSE IF ~IsSome(Get(prs).values)
             THEN Throw("Spread syntax requires ...iterable[Symbol.iterator] to be a function", l)
             ELSE LET allPrs == l.allPrs \o Get(Get(prs).values)
                      next == [l EXCEPT !.allPrs = allPrs, !.r = l.r + 1]
                  IN  IF l.r + 1 <= Len(l.roles)
                      THEN Await(LoopRequests(l.roles, l.r + 1, cfg), next)
                      ELSE MapProjection(UniquePrs(allPrs), next)

(***************************************************************************)
(* Tools: bitbucketgetpr and bitbucketgetdiff.                             *)
(***************************************************************************)
PrArgs == <<"PRJ", "repo", "41">>

\* new Date(ms).toISOString()
toISOString(ms) ==
    CASE ms = 0 -> "1970-01-01T00:00:00.000Z"
      [] ms = 86400000 -> "1970-01-02T00:00:00.000Z"

getPrStart(cfg) ==
    Await(<<JsonRequest("pr", PrArgs, cfg)>>, [NoLocals EXCEPT !.tool = "bitbucketgetpr"])

getPrAfter(l, res, cfg) ==
    IF IsSome(getOrThrow(res)) THEN Throw(Get(getOrThrow(res)), l)
    ELSE LET d == DataOf(res)
         IN  IF ~IsSome(d) \/ Get(d) = JsonNull THEN Throw(ReadOf(d, "id"), l)
             ELSE IF ~IsSome(Get(d).createdDate) \/ ~IsSome(Get(d).updatedDate)
             THEN Throw("Invalid time value", l)
             ELSE Return(JsObject([id |-> Get(d).id, title |-> Get(d).title,
                                   description |-> Get(d).description,
                                   author |-> None, reviewers |-> None,
                                   state |-> None,
                                   created_on |-> toISOString(Get(Get(d).createdDate)),
                                   updated_on |-> toISOString(Get(Get(d).updatedDate))]), l)

getDiffStart(cfg) ==
    Await(<<Request("diff", PrArgs, cfg, Some("text/plain"), "text")>>,
          [NoLocals EXCEPT !.tool = "bitbucketgetdiff"])

getDiffAfter(l, res, cfg) ==
    IF IsSome(getOrThrow(res)) THEN Throw(Get(getOrThrow(res)), l)
    ELSE IF IsSome(DataOf(res)) THEN Return(JsString(<<Get(DataOf(res))>>), l)
    ELSE Return(JsUndefined, l)

(***************************************************************************)
(* registerApiTool: the callback registered with the framework.            *)
(***************************************************************************)
Resolved(envelope) == [kind |-> "resolved", content |-> envelope.content, message |-> ""]
Rejected(message) == [kind |-> "rejected", content |-> <<>>, message |-> message]
NoResult == [logic |-> "none", kind |-> "none", content |-> <<>>, message |-> ""]

\* `Unhandled error: ${e.message || e}`: an Error with an empty message
\* renders as "Error".
UnhandledError(message) ==
    JsString(<<"Unhandled error: ", IF message /= "" THEN message ELSE "Error">>)

ApiToolCallbackNoCatch(c) ==
    IF c.next = "return" THEN Resolved(format(c.value)) ELSE Rejected(c.message)

\* try { return format(await logic(args)) } catch (e) { return format(...) }
ApiToolCallback(c) ==
    IF c.next = "return" THEN Resolved(format(c.value))
    ELSE Resolved(format(UnhandledError(c.message)))

Tools == {"bitbucketlistprs", "bitbucketgetpr", "bitbucketgetdiff"}

\* logic(args) up to its first await
Start(tool, input, cfg) ==
    CASE tool = "bitbucketlistprs" -> listPrsStart(input, cfg)
      [] tool = "bitbucketgetpr" -> getPrStart(cfg)
      [] tool = "bitbucketgetdiff" -> getDiffStart(cfg)

\* logic(args) from the answer to the GET req to its next await or its end
Resume(l, req, res, cfg) ==
    CASE req.kind = "whoami" -> listPrsAfterWhoami(l, res, cfg)
      [] req.kind = "users" -> listPrsAfterUsers(l, res, cfg)
      [] req.kind = "inbox" -> listPrsAfterInbox(l, res, cfg)
      [] req.kind = "pr" -> getPrAfter(l, res, cfg)
      [] req.kind = "diff" -> getDiffAfter(l, res, cfg)

\* The local variables of invocation i: each call of the handler has its own.
LocalsSharedAllPrs(store, i) == [store[i] EXCEPT !.allPrs = store[1].allPrs]

Locals(store, i) == store[i]

(***************************************************************************)
(* Actions.                                                                *)
(***************************************************************************)
Init ==
    /\ env \in Environments
    /\ phase = "boot"
    /\ config = NoConfig
    /\ pc = [i \in Invocations |-> "idle"]
    /\ loc = [i \in Invocations |-> NoLocals]
    /\ outstanding = [i \in Invocations |-> <<>>]
    /\ issued = [i \in Invocations |-> <<>>]
    /\ received = [i \in Invocations |-> <<>>]
    /\ result = [i \in Invocations |-> NoResult]

\* Module evaluation up to "await server.connect(transport)".
Startup ==
    /\ phase = "boot"
    /\ IF fatal(env)
       THEN phase' = "exited" /\ config' = config
       ELSE phase' = "serving"
            /\ config' = [BB_BASE_URL |-> env.BB_BASE_URL, BB_TOKEN |-> env.BB_TOKEN]
    /\ UNCHANGED <<env, pc, loc, outstanding, issued, received, result>>

\* Invocation i runs on to the continuation c; if c ends the handler, the
\* registered callback completes as `completed` (result.logic keeps whether
\* the handler itself returned or threw).
Continue(i, c, inFlight, completed) ==
    /\ loc' = [loc EXCEPT ![i] = c.loc]
    /\ IF c.next = "await"
       THEN /\ pc' = [pc EXCEPT ![i] = "await"]
            /\ outstanding' = [outstanding EXCEPT ![i] = inFlight \o c.reqs]
            /\ issued' = [issued EXCEPT ![i] = @ \o c.reqs]
            /\ result' = result
       ELSE /\ pc' = [pc EXCEPT ![i] = "done"]
            /\ outstanding' = [outstanding EXCEPT ![i] = inFlight]
            /\ issued' = issued
            /\ result' = [result EXCEPT ![i] = [logic |-> c.next] @@ completed]

\* The framework calls a registered tool's callback.
Invoke(i, dom) ==
    /\ phase = "serving"
    /\ pc[i] = "idle"
    /\ \E tool \in Tools, input \in dom.inputs :
          /\ tool /= "bitbucketlistprs" => input = None
          /\ LET c == Start(tool, input, config)
             IN  Continue(i, c, <<>>, ApiToolCallback(c))
    /\ received' = [received EXCEPT ![i] = <<>>]
    /\ UNCHANGED <<env, phase, config>>

Without(s, k) == SubSeq(s, 1, k - 1) \o SubSeq(s, k + 1, Len(s))

\* axios.get settles for a GET of invocation i, and the handler runs on.
Respond(i, dom) ==
    /\ pc[i] = "await"
    /\ \E k \in 1 .. Len(outstanding[i]) :
          LET req == outstanding[i][k]
          IN  \E o \in AxiosOutcomes(req.kind, dom) :
                 LET res == bitbucketGet(o)
                     c == Resume(Locals(loc, i), req, res, config)
                 IN  /\ received' = [received EXCEPT ![i] = Append(@, res)]
                     /\ Continue(i, c, Without(outstanding[i], k), ApiToolCallback(c))
    /\ UNCHANGED <<env, phase, config>>

\* The framework sends the completed callback's response; the slot is free again.
Deliver(i) ==
    /\ pc[i] = "done"
    /\ pc' = [pc EXCEPT ![i] = "idle"]
    /\ loc' = [loc EXCEPT ![i] = NoLocals]
    /\ outstanding' = [outstanding EXCEPT ![i] = <<>>]
    /\ issued' = [issued EXCEPT ![i] = <<>>]
    /\ received' = [received EXCEPT ![i] = <<>>]
    /\ result' = [result EXCEPT ![i] = NoResult]
    /\ UNCHANGED <<env, phase, config>>

\* One invocation at a time, the full range of upstream answers.
Next ==
    \/ Startup
    \/ Invoke(1, RichDomain)
    \/ Respond(1, RichDomain)
    \/ Deliver(1)

Spec == Init /\ [][Next]_vars

\* Several invocations in flight, interleaved at their awaits.
ConcNext ==
    \/ Startup
    \/ \E i \in Invocations : Invoke(i, SmallDomain)
    \/ \E i \in Invocations : Respond(i, SmallDomain)
    \/ \E i \in Invocations : Deliver(i)

ConcSpec == Init /\ [][ConcNext]_vars

(***************************************************************************)
(* The entry point that registers its handlers directly                    *)
(* (server.registerTool) and calls bitbucketApiRequest.                    *)
(***************************************************************************)
BITBUCKET_BASE_URL == "https://git.namecheap.net"

\* bitbucketApiRequest reads process.env.BB_TOKEN when it is called; nothing
\* checks it at start.
LegacyConfig(e) == [BB_BASE_URL |-> Some(BITBUCKET_BASE_URL), BB_TOKEN |-> e.BB_TOKEN]

\* bitbucketApiRequest's result: as bitbucketGet's
bitbucketApiRequest(o) == bitbucketGet(o)

\* formatToolResponse(data): the handlers pass it strings, arrays and object
\* literals without an 'error' or 'data' key.
formatToolResponse(data) ==
    [content |-> << [type |-> "text",
                     text |-> IF IsJsString(data) THEN data ELSE JSONstringify(data)] >>]

TextEnvelope(text) == [content |-> << [type |-> "text", text |-> text] >>]

CouldNotDetermineUser == TextEnvelope(JsString(<<"Could not determine the current user.">>))

legacyListStart(input, e) ==
    Await(<<JsonRequest("whoami", <<>>, LegacyConfig(e))>>,
          [NoLocals EXCEPT !.tool = "bitbucketlistprs", !.input = input,
                           !.role = ZodDefault(input)])

\* After the last inbox query: uniquePrs, then formatToolResponse(uniquePrs.map(...))
legacyListEnd(l) ==
    LET c == MapProjection(UniquePrs(l.allPrs), l)
    IN  IF c.next = "return" THEN Return(formatToolResponse(c.value), l) ELSE c

\* if (role === 'author' || role === 'all') ...; if (role === 'reviewer' || role === 'all') ...
legacyListQueries(l, after, e) ==
    IF after = "users" /\ l.role \in {"author", "all"}
    THEN Await(<<JsonRequest("inbox", <<"AUTHOR">>, LegacyConfig(e))>>, l)
    ELSE IF after \in {"users", "AUTHOR"} /\ l.role \in {"reviewer", "all"}
    THEN Await(<<JsonRequest("inbox", <<"REVIEWER">>, LegacyConfig(e))>>, l)
    ELSE legacyListEnd(l)

legacyListAfterWhoami(l, res, e) ==
    IF res.tag = "error"
    THEN Return(formatToolResponse(JsString(<<"Error fetching user: ", res.message>>)), l)
    ELSE IF res.data /= ""
    THEN Await(<<JsonRequest("users", <<res.data>>, LegacyConfig(e))>>,
               [l EXCEPT !.username = Some(res.data)])
    ELSE Return(CouldNotDetermineUser, [l EXCEPT !.username = Some(res.data)])

legacyListAfterUsers(l, res, e) ==
    IF res.tag = "error"
    THEN Return(formatToolResponse(JsString(<<"Error fetching user details: ", res.message>>)), l)
    ELSE IF res.data = JsonNull THEN Throw(TypeErrorReadingNull("values"), l)
    ELSE LET values == IF IsSome(res.data.values) THEN Get(res.data.values) ELSE <<>>
             slug == IF Len(values) > 0 THEN values[1].slug ELSE None
         IN  IF ~Truthy(slug) THEN Return(CouldNotDetermineUser, l)
             ELSE legacyListQueries([l EXCEPT !.allPrs = <<>>], "users", e)

\* if (!('error' in response) && response.data.values) prs.push(...response.data.values)
legacyListAfterInbox(l, req, res, e) ==
    IF res.tag = "error" THEN legacyListQueries(l, req.param[1], e)
    ELSE IF res.data = JsonNull THEN Throw(TypeErrorReadingNull("values"), l)
    ELSE legacyListQueries(
            [l EXCEPT !.allPrs = @ \o (IF IsSome(res.data.values) THEN Get(res.data.values) ELSE <<>>)],
            req.param[1], e)

legacyGetPrStart(e) ==
    Await(<<JsonRequest("pr", PrArgs, LegacyConfig(e))>>, [NoLocals EXCEPT !.tool = "bitbucketgetpr"])

legacyGetPrAfter(l, res) ==
    IF res.tag = "error"
    THEN Return(formatToolResponse(JsString(<<"Error fetching PR info: ", res.message>>)), l)
    ELSE IF res.data = JsonNull THEN Throw(TypeErrorReadingNull("id"), l)
    ELSE IF ~IsSome(res.data.createdDate) \/ ~IsSome(res.data.updatedDate)
    THEN Throw("Invalid time value", l)
    ELSE Return(formatToolResponse(
                    JsObject([id |-> res.data.id, title |-> res.data.title,
                              description |-> res.data.description,
                              author |-> None, reviewers |-> None, state |-> None,
                              created_on |-> toISOString(Get(res.data.createdDate)),
                              updated_on |-> toISOString(Get(res.data.updatedDate))])), l)

legacyGetDiffStart(e) ==
    Await(<<Request("diff", PrArgs, LegacyConfig(e), Some("text/plain"), "text")>>,
          [NoLocals EXCEPT !.tool = "bitbucketgetdiff"])

legacyGetDiffAfter(l, res) ==
    IF res.tag = "error"
    THEN Return(formatToolResponse(JsString(<<"Error fetching PR diff: ", res.message>>)), l)
    ELSE Return(TextEnvelope(JsString(<<res.data>>)), l)

LegacyStart(tool, input, e) ==
    CASE tool = "bitbucketlistprs" -> legacyListStart(input, e)
      [] tool = "bitbucketgetpr" -> legacyGetPrStart(e)
      [] tool = "bitbucketgetdiff" -> legacyGetDiffStart(e)

LegacyResume(l, req, res, e) ==
    CASE req.kind = "whoami" -> legacyListAfterWhoami(l, res, e)
      [] req.kind = "users" -> legacyListAfterUsers(l, res, e)
      [] req.kind = "inbox" -> legacyListAfterInbox(l, req, res, e)
      [] req.kind = "pr" -> legacyGetPrAfter(l, res)
      [] req.kind = "diff" -> legacyGetDiffAfter(l, res)

\* The handler is the registered callback: what it returns is the response,
\* what it throws rejects the callback.
LegacyCallback(c) ==
    IF c.next = "return" THEN Resolved(c.value) ELSE Rejected(c.message)

\* dotenv.config(), the registrations, "await server.connect(transport)".
LegacyStartup ==
    /\ phase = "boot"
    /\ phase' = "serving"
    /\ UNCHANGED <<env, config, pc, loc, outstanding, issued, received, result>>

LegacyInvoke(i, dom) ==
    /\ phase = "serving"
    /\ pc[i] = "idle"
    /\ \E tool \in Tools, input \in dom.inputs :
          /\ tool /= "bitbucketlistprs" => input = None
          /\ LET c == LegacyStart(tool, input, env)
             IN  Continue(i, c, <<>>, LegacyCallback(c))
    /\ received' = [received EXCEPT ![i] = <<>>]
    /\ UNCHANGED <<env, phase, config>>

LegacyRespond(i, dom) ==
    /\ pc[i] = "await"
    /\ \E k \in 1 .. Len(outstanding[i]) :
          LET req == outstanding[i][k]
          IN  \E o \in AxiosOutcomes(req.kind, dom) :
                 LET res == bitbucketApiRequest(o)
                     c == LegacyResume(loc[i], req, res, env)
                 IN  /\ received' = [received EXCEPT ![i] = Append(@, res)]
                     /\ Continue(i, c, Without(outstanding[i], k), LegacyCallback(c))
    /\ UNCHANGED <<env, phase, config>>

LegacyDomain ==
    [SmallDomain EXCEPT
        !.inputs = RoleInputs,
        !.whoami = {"", "jdoe"},
        !.users = UsersBodies,
        !.inbox = @ \cup {JsonNull, NoValues, Values(<<PullRequest(42, "t2", {"fromRef"})>>)}]

LegacyNext ==
    \/ LegacyStartup
    \/ LegacyInvoke(1, LegacyDomain)
    \/ LegacyRespond(1, LegacyDomain)
    \/ Deliver(1)

LegacySpec == Init /\ [][LegacyNext]_vars

(***************************************************************************)
(* Properties.                                                             *)
(***************************************************************************)
IsList(i) == loc[i].tool = "bitbucketlistprs"
Text(i) == result[i].content[1].text

\* The text is the JSON rendering of an array (a list of projections).
IsProjectionList(text) == "json" \in DOMAIN text /\ text.json[1].t = "array"
ProjectionsOf(text) == text.json[1].v

\* Which upstream call a GET is: the endpoint, and for the inbox the role.
Label(req) == IF req.kind = "inbox" THEN req.param[1] ELSE req.kind
InboxCount(i, role) ==
    Cardinality({k \in 1 .. Len(issued[i]) : issued[i][k].kind = "inbox" /\ issued[i][k].param[1] = role})

\* The k-th upstream call of invocation i succeeded with a usable payload.
Usable(i, k) ==
    LET res == received[i][k]
        kind == issued[i][k].kind
    IN  /\ res.tag = "data"
        /\ kind = "users" =>
              /\ res.data /= JsonNull
              /\ IsSome(res.data.values)
              /\ Len(Get(res.data.values)) > 0
              /\ Truthy(Get(res.data.values)[1].slug)
        /\ kind = "inbox" => res.data /= JsonNull /\ IsSome(res.data.values)

\* C1: whenever the callback registered for any tool has completed, it has
\* resolved (not rejected) with an envelope of exactly one block, of type
\* text, whose text is a string.
C1_EnvelopeAlways ==
    \A i \in Invocations :
        pc[i] = "done" =>
            /\ result[i].kind = "resolved"
            /\ Len(result[i].content) = 1
            /\ result[i].content[1].type = "text"
            /\ IsJsString(Text(i))

\* C1's case: the handler's logic threw a TypeError in the projection step
\* and the callback completed.
C1_Witness ==
    \E i \in Invocations :
        /\ pc[i] = "done"
        /\ result[i].logic = "throw"
        /\ Text(i).v = <<"Unhandled error: ", TypeErrorReading("repository")>>

\* C2: in list-my-pull-requests, once an upstream call has returned the
\* error variant it is the last call the invocation issued, the invocation
\* is complete, and its response is a plain text containing that error's
\* message and is not a list of projections.
C2_ErrorShortCircuits ==
    \A i \in Invocations :
        IsList(i) =>
            \A k \in 1 .. Len(received[i]) :
                received[i][k].tag = "error" =>
                    /\ k = Len(received[i])
                    /\ Len(issued[i]) = k
                    /\ outstanding[i] = <<>>
                    /\ pc[i] = "done"
                    /\ result[i].kind = "resolved"
                    /\ IsJsString(Text(i))
                    /\ ~IsProjectionList(Text(i))
                    /\ Contains(Text(i), received[i][k].message)

\* C2's case: with role all, the AUTHOR inbox query returned the error
\* variant (the REVIEWER query would have been next).
C2_Witness ==
    \E i \in Invocations :
        /\ IsList(i) /\ loc[i].role = "all" /\ pc[i] = "done"
        /\ Len(received[i]) = 3
        /\ received[i][3].tag = "error"
        /\ received[i][3].message = "timeout of 0ms exceeded"

\* The items the inbox queries of invocation i returned, in the order received.
RECURSIVE ReturnedItems(_, _)
ReturnedItems(i, k) ==
    IF k > Len(received[i]) THEN <<>>
    ELSE (IF issued[i][k].kind = "inbox" /\ Usable(i, k)
          THEN Get(received[i][k].data.values) ELSE <<>>) \o ReturnedItems(i, k + 1)

FirstAt(items, id) == CHOOSE m \in 1 .. Len(items) :
                          items[m].id = id /\ \A j \in 1 .. m - 1 : items[j].id /= id

\* C3: when list-my-pull-requests responds with a list, the list has one
\* entry for each PR id among the items the inbox queries returned, no id
\* twice, each entry is the projection of the first item with its id (the
\* AUTHOR query's items come first), and the entries are in the order of
\* first occurrence.
C3_DedupFirstSeen ==
    \A i \in Invocations :
        (IsList(i) /\ pc[i] = "done" /\ IsProjectionList(Text(i))) =>
            LET out == ProjectionsOf(Text(i))
                items == ReturnedItems(i, 1)
            IN  /\ {out[k].id : k \in 1 .. Len(out)} = {items[k].id : k \in 1 .. Len(items)}
                /\ \A j, k \in 1 .. Len(out) : j /= k => out[j].id /= out[k].id
                /\ \A k \in 1 .. Len(out) : out[k] = Projection(items[FirstAt(items, out[k].id)])
                /\ \A j, k \in 1 .. Len(out) :
                      j < k => FirstAt(items, out[j].id) < FirstAt(items, out[k].id)

\* C3's case: role all, PR 41 is returned by the AUTHOR query (title t1) and
\* by the REVIEWER query (title t2, after PR 42); the list has 41 once, as
\* the AUTHOR copy, then 42.
C3_Witness ==
    \E i \in Invocations :
        /\ IsList(i) /\ pc[i] = "done" /\ loc[i].role = "all"
        /\ Len(received[i]) = 4
        /\ received[i][3] = [tag |-> "data", data |-> Values(<<PullRequest(41, "t1", {})>>)]
        /\ received[i][4] = [tag |-> "data",
                             data |-> Values(<<PullRequest(42, "t1", {}), PullRequest(41, "t2", {})>>)]
        /\ IsProjectionList(Text(i))
        /\ ProjectionsOf(Text(i)) =
              <<Projection(PullRequest(41, "t1", {})), Projection(PullRequest(42, "t1", {}))>>

\* C4: with role author no REVIEWER inbox query is issued, with role
\* reviewer no AUTHOR inbox query is issued, no role is queried twice, and
\* with role all (given or defaulted) an invocation that completed with every
\* upstream call usable has issued exactly one query per role.
C4_RoleFiltering ==
    \A i \in Invocations :
        IsList(i) =>
            /\ loc[i].role = "author" => InboxCount(i, "REVIEWER") = 0
            /\ loc[i].role = "reviewer" => InboxCount(i, "AUTHOR") = 0
            /\ InboxCount(i, "AUTHOR") <= 1 /\ InboxCount(i, "REVIEWER") <= 1
            /\ (loc[i].role = "all" /\ pc[i] = "done"
                    /\ \A k \in 1 .. Len(received[i]) : Usable(i, k)) =>
                  InboxCount(i, "AUTHOR") = 1 /\ InboxCount(i, "REVIEWER") = 1

\* C4's case: role author, the AUTHOR query has been issued and answered and
\* the invocation completed with a list.
C4_Witness ==
    \E i \in Invocations :
        /\ IsList(i) /\ loc[i].input = Some("author") /\ pc[i] = "done"
        /\ InboxCount(i, "AUTHOR") = 1
        /\ IsProjectionList(Text(i))

\* The user search succeeded without a usable match: absent or empty list,
\* or a first match without a slug.
NoUserMatch(res) ==
    /\ res.tag = "data"
    /\ res.data /= JsonNull
    /\ \/ ~IsSome(res.data.values)
       \/ Len(Get(res.data.values)) = 0
       \/ ~Truthy(Get(res.data.values)[1].slug)

\* C5: when the user search succeeds without a usable match, the handler
\* returns (it does not throw) and the response is not an "Unhandled error"
\* text.
C5_NoMatchIsReturned ==
    \A i \in Invocations :
        (IsList(i) /\ pc[i] = "done" /\ Len(received[i]) = 2 /\ NoUserMatch(received[i][2])) =>
            /\ result[i].logic = "return"
            /\ result[i].kind = "resolved"
            /\ ~(Len(Text(i).v) > 0 /\ Text(i).v[1] = "Unhandled error: ")

\* C6: when every upstream call was usable, whichever nested objects of the
\* returned items are absent, the handler returns a list holding a
\* projection for each distinct item.
C6_PartialItemsProjected ==
    \A i \in Invocations :
        (IsList(i) /\ pc[i] = "done" /\ \A k \in 1 .. Len(received[i]) : Usable(i, k)) =>
            /\ result[i].logic = "return"
            /\ IsProjectionList(Text(i))
            /\ {ProjectionsOf(Text(i))[k].id : k \in 1 .. Len(ProjectionsOf(Text(i)))}
                  = {ReturnedItems(i, 1)[k].id : k \in 1 .. Len(ReturnedItems(i, 1))}

\* C7: if BB_TOKEN is unset or empty the server never serves: no callback is
\* ever invoked and no GET is ever issued.
C7_TokenGate ==
    ~Truthy(env.BB_TOKEN) =>
        /\ phase /= "serving"
        /\ \A i \in Invocations : pc[i] = "idle" /\ issued[i] = <<>>

\* C8 as stated: one list-my-pull-requests invocation issues at most three GETs.
C8_AtMostThree ==
    \A i \in Invocations : IsList(i) => Len(issued[i]) <= 3

\* C8 amended: one list-my-pull-requests invocation issues at most four GETs,
\* and at most three when the role is author or reviewer.
C8_AtMostFour ==
    \A i \in Invocations :
        IsList(i) =>
            /\ Len(issued[i]) <= 4
            /\ loc[i].role \in {"author", "reviewer"} => Len(issued[i]) <= 3

\* C8's case: role all, both inbox queries issued: four GETs.
C8_Witness ==
    \E i \in Invocations :
        IsList(i) /\ loc[i].role = "all" /\ pc[i] = "done" /\ Len(issued[i]) = 4

\* The order of the upstream calls for a role.
ExpectedCalls(role) ==
    <<"whoami", "users">> \o
        (CASE role = "all" -> <<"AUTHOR", "REVIEWER">>
           [] role = "author" -> <<"AUTHOR">>
           [] role = "reviewer" -> <<"REVIEWER">>)

\* C9: an invocation has at most one GET outstanding, every GET but the
\* outstanding one has been answered (so each was issued after the answer to
\* the one before), and the GETs of list-my-pull-requests are a prefix of
\* identity lookup, user search, AUTHOR inbox, REVIEWER inbox, without the
\* roles not selected.
C9_SequentialFixedOrder ==
    \A i \in Invocations :
        /\ Len(outstanding[i]) <= 1
        /\ Len(issued[i]) = Len(received[i]) + Len(outstanding[i])
        /\ IsList(i) =>
              /\ Len(issued[i]) <= Len(ExpectedCalls(loc[i].role))
              /\ \A k \in 1 .. Len(issued[i]) : Label(issued[i][k]) = ExpectedCalls(loc[i].role)[k]

\* C9's case: role all, the REVIEWER query is outstanding after the three
\* calls before it were answered.
C9_Witness ==
    \E i \in Invocations :
        /\ IsList(i) /\ loc[i].role = "all" /\ pc[i] = "await"
        /\ Len(issued[i]) = 4 /\ Len(received[i]) = 3
        /\ Label(outstanding[i][1]) = "REVIEWER"

\* The handler run alone: from the continuation c on the answers rs.
RECURSIVE Replay(_, _)
Replay(c, rs) ==
    IF rs = <<>> \/ c.next /= "await" THEN c
    ELSE Replay(Resume(c.loc, c.reqs[1], Head(rs), config), Tail(rs))

\* C10: however the invocations interleave, each one's local variables,
\* outstanding GET and response are those of the same tool call run alone on
\* the answers this invocation received.
C10_Isolation ==
    \A i \in Invocations :
        pc[i] /= "idle" =>
            LET c == Replay(Start(loc[i].tool, loc[i].input, config), received[i])
            IN  /\ loc[i] = c.loc
                /\ pc[i] = "await" => c.next = "await" /\ outstanding[i] = c.reqs
                /\ pc[i] = "done" =>
                      c.next /= "await" /\ result[i] = [logic |-> c.next] @@ ApiToolCallback(c)

\* C10's case: two list invocations in flight at once with different
\* accumulated lists, one of them complete.
C10_Witness ==
    \E i, j \in Invocations :
        /\ i /= j /\ IsList(i) /\ IsList(j)
        /\ pc[i] = "done" /\ IsProjectionList(Text(i))
        /\ pc[j] = "await" /\ Len(received[j]) = 3
        /\ loc[j].allPrs /= <<>> /\ loc[j].allPrs /= loc[i].allPrs

====
